---------------------------- MODULE Spec2Model ----------------------------
(***************************************************************************)
(* Model of ctmslib: the TI COFF image reader (coff.py) and the integer    *)
(* alignment helper (dataops.py).                                          *)
(*                                                                         *)
(* A buffer is a sequence of bytes (0..255); the byte at Python index k is *)
(* element k+1 of the sequence.  A decoded text is represented by its     *)
(* UTF-8 byte sequence (decoding is injective on valid sequences), and a   *)
(* byte sequence that is not valid UTF-8 makes decode() raise.             *)
(***************************************************************************)
EXTENDS Integers, Sequences, FiniteSets, TLC

VARIABLES
    data,       \* the bytearray handed to CoffImage(data); shared, mutable
    image,      \* the CoffImage object: status and the fields _load assigns
    sectab,     \* CoffImage._sectab: NoTable (None) or the stored table
    ndecoded,   \* number of section entries unpacked by _load_sect_tab so far
    dst,        \* the destination buffer of the last copy_sects call
    view,       \* the object last returned by CoffSection.data, if any
    call,       \* the last operation performed: its name, the error it
                \* raised, its arguments and, for a table access, the
                \* number of entries it unpacked (arg)
    nmut,       \* number of in-place writes the caller made to the buffer
    aligned     \* the last call of dataops.align: arguments and result

vars == <<data, image, sectab, ndecoded, dst, view, call, nmut, aligned>>

---------------------------------------------------------------------------
(* Program constants *)

TEXT == 32
DATA == 64
BSS == 128
ALLOC_MASK == TEXT + DATA + BSS    \* TEXT | DATA | BSS, distinct bits
ENT_SIZE == 48
SYM_ENT_SIZE == 18
MAGIC == 264
HDR_ENT_SIZE == 50
NAME_ENT_SIZE == 8

\* CoffImage._blens = {0x9D: 2, 0x98: 2}
blens == (157 :> 2) @@ (152 :> 2)

\* Python's None, for each kind of value that may be absent
NoName == [has |-> FALSE, text |-> << >>]
NoSection == [has |-> FALSE]
NoTable == [loaded |-> FALSE, sects |-> << >>, tab |-> << >>]
NoView == [has |-> FALSE, sect |-> 0, bytes |-> << >>]
NoAlign == [done |-> FALSE, value |-> 0, align |-> 0, result |-> 0]

---------------------------------------------------------------------------
(* Bounds of the model *)

MaxSects == 2       \* most section entries in a generated image
DstLen == 8         \* length of the destination buffer of copy_sects
MaxMut == 1         \* most in-place writes to the image buffer
MaxDecodes == 4     \* cap on the entries decoded by repeated failing accesses
MaxAlignValue == 12 \* largest value handed to align
MaxAlign == 8       \* largest alignment handed to align

---------------------------------------------------------------------------
(* Python slicing, struct.unpack and bit operations *)

Min(a, b) == IF a < b THEN a ELSE b
Max(a, b) == IF a > b THEN a ELSE b

\* buf[lo:hi] for 0 <= lo; indexes beyond the end are clipped as Python does
Slice(buf, lo, hi) ==
    LET l == Min(lo, Len(buf))
        h == Min(hi, Len(buf))
    IN  IF h <= l THEN << >> ELSE SubSeq(buf, l + 1, h)

\* struct.unpack: little-endian unsigned 16 bit field at byte offset off
U16(buf, off) == buf[off + 1] + 256 * buf[off + 2]

\* struct.unpack: little-endian unsigned 32 bit field at byte offset off
U32(buf, off) ==
    buf[off + 1] + 256 * buf[off + 2] + 65536 * buf[off + 3]
        + 16777216 * buf[off + 4]

\* Field idx of the header record "<2H3I5H6I" (offsets without padding)
HdrOffset(idx) ==
    IF idx < 2 THEN 2 * idx
    ELSE IF idx < 5 THEN 4 + 4 * (idx - 2)
    ELSE IF idx < 10 THEN 16 + 2 * (idx - 5)
    ELSE 26 + 4 * (idx - 10)

HdrField(buf, idx) ==
    IF idx < 2 \/ (idx >= 5 /\ idx < 10)
    THEN U16(buf, HdrOffset(idx))
    ELSE U32(buf, HdrOffset(idx))

\* Field idx of a section entry "<12I" located at byte address addr
EntField(buf, addr, idx) == U32(buf, addr + 4 * idx)

\* a & b for non-negative integers
RECURSIVE BitAnd(_, _)
BitAnd(a, b) ==
    IF a = 0 \/ b = 0 THEN 0
    ELSE (a % 2) * (b % 2) + 2 * BitAnd(a \div 2, b \div 2)

\* CoffSectionFlags.is_allocated: (value & ALLOC_MASK) != 0
is_allocated(flags) == BitAnd(flags, ALLOC_MASK) # 0

---------------------------------------------------------------------------
(* Errors: every raise of the library, with the value its message embeds *)

Raise(kind, idx, name) == [err |-> kind, idx |-> idx, name |-> name]

NoRaise == Raise("none", 0, << >>)

---------------------------------------------------------------------------
(* bytes.decode(): strict UTF-8 *)

InRange(b, i, lo, hi) == i <= Len(b) /\ b[i] >= lo /\ b[i] <= hi

Cont(b, i) == InRange(b, i, 128, 191)

RECURSIVE Utf8From(_, _)
Utf8From(b, i) ==
    IF i > Len(b) THEN TRUE
    ELSE LET c == b[i] IN
        IF c < 128 THEN Utf8From(b, i + 1)
        ELSE IF c >= 194 /\ c <= 223
            THEN Cont(b, i + 1) /\ Utf8From(b, i + 2)
        ELSE IF c = 224
            THEN InRange(b, i + 1, 160, 191) /\ Cont(b, i + 2)
                 /\ Utf8From(b, i + 3)
        ELSE IF (c >= 225 /\ c <= 236) \/ c = 238 \/ c = 239
            THEN Cont(b, i + 1) /\ Cont(b, i + 2) /\ Utf8From(b, i + 3)
        ELSE IF c = 237
            THEN InRange(b, i + 1, 128, 159) /\ Cont(b, i + 2)
                 /\ Utf8From(b, i + 3)
        ELSE IF c = 240
            THEN InRange(b, i + 1, 144, 191) /\ Cont(b, i + 2)
                 /\ Cont(b, i + 3) /\ Utf8From(b, i + 4)
        ELSE IF c >= 241 /\ c <= 243
            THEN Cont(b, i + 1) /\ Cont(b, i + 2) /\ Cont(b, i + 3)
                 /\ Utf8From(b, i + 4)
        ELSE IF c = 244
            THEN InRange(b, i + 1, 128, 143) /\ Cont(b, i + 2)
                 /\ Cont(b, i + 3) /\ Utf8From(b, i + 4)
        ELSE FALSE

\* decode(): the text (as its bytes), or a UnicodeDecodeError
decode(b) ==
    IF Utf8From(b, 1)
    THEN [raised |-> NoRaise, name |-> [has |-> TRUE, text |-> b]]
    ELSE [raised |-> Raise("unicode_decode", 0, << >>), name |-> NoName]

---------------------------------------------------------------------------
(* CoffImage._get_str and CoffImage._get_ent_name *)

RECURSIVE StrLen(_, _)
StrLen(b, slen) ==
    IF slen < Len(b) /\ b[slen + 1] # 0 THEN StrLen(b, slen + 1) ELSE slen

_get_str(b) == decode(Slice(b, 0, StrLen(b, 0)))

_get_ent_name(buf, strtab_addr, addr, has_str, str_offs) ==
    LET a == IF has_str THEN strtab_addr + str_offs ELSE addr
        max == IF has_str THEN Len(buf) - a ELSE NAME_ENT_SIZE
    IN  IF max > 0
        THEN _get_str(Slice(buf, a, a + max))
        ELSE [raised |-> NoRaise, name |-> NoName]

---------------------------------------------------------------------------
(* CoffSection._load *)

\* Mutant: the bound is checked on the raw length, before scaling
CoffSection_RawBound(name, idx, buf, addr, blen) ==
    LET paddr == EntField(buf, addr, 2)
        vaddr == EntField(buf, addr, 3)
        rawlen == EntField(buf, addr, 4)
        daddr == EntField(buf, addr, 5)
        flags == EntField(buf, addr, 10)
        dlen == IF is_allocated(flags) THEN rawlen * blen ELSE rawlen
    IN  IF ~name.has
        THEN [raised |-> Raise("section_name", idx, << >>),
              sect |-> NoSection]
        ELSE IF daddr + rawlen > Len(buf)
        THEN [raised |-> Raise("section_data", idx, << >>),
              sect |-> NoSection]
        ELSE [raised |-> NoRaise,
              sect |-> [name |-> name.text, idx |-> idx, paddr |-> paddr,
                        vaddr |-> vaddr, flags |-> flags, daddr |-> daddr,
                        dlen |-> dlen]]

CoffSection(name, idx, buf, addr, blen) ==
    LET paddr == EntField(buf, addr, 2)
        vaddr == EntField(buf, addr, 3)
        rawlen == EntField(buf, addr, 4)
        daddr == EntField(buf, addr, 5)
        flags == EntField(buf, addr, 10)
        dlen == IF is_allocated(flags) THEN rawlen * blen ELSE rawlen
    IN  IF ~name.has
        THEN [raised |-> Raise("section_name", idx, << >>),
              sect |-> NoSection]
        ELSE IF daddr + dlen > Len(buf)
        THEN [raised |-> Raise("section_data", idx, << >>),
              sect |-> NoSection]
        ELSE [raised |-> NoRaise,
              sect |-> [name |-> name.text, idx |-> idx, paddr |-> paddr,
                        vaddr |-> vaddr, flags |-> flags, daddr |-> daddr,
                        dlen |-> dlen]]

---------------------------------------------------------------------------
(* CoffSectionTable._load *)

RECURSIVE FirstDup(_, _)
\* index of the first section whose name an earlier section has, 0 if none
FirstDup(sects, i) ==
    IF i > Len(sects) THEN 0
    ELSE IF \E j \in 1..(i - 1) : sects[j].name = sects[i].name THEN i
    ELSE FirstDup(sects, i + 1)

\* Mutant: a repeated name replaces the earlier entry of the map
CoffSectionTable_LastWins(sects) ==
    LET names == {sects[i].name : i \in 1..Len(sects)}
    IN  [raised |-> NoRaise,
         table |-> [loaded |-> TRUE, sects |-> sects,
                    tab |-> [n \in names |->
                        CHOOSE i \in 1..Len(sects) :
                            /\ sects[i].name = n
                            /\ \A j \in 1..Len(sects) :
                                  sects[j].name = n => j <= i]]]

CoffSectionTable(sects) ==
    LET d == FirstDup(sects, 1)
        names == {sects[i].name : i \in 1..Len(sects)}
    IN  IF d # 0
        THEN [raised |-> Raise("duplicate_name", 0, sects[d].name),
              table |-> NoTable]
        ELSE [raised |-> NoRaise,
              table |-> [loaded |-> TRUE, sects |-> sects,
                         tab |-> [n \in names |->
                            CHOOSE i \in 1..Len(sects) : sects[i].name = n]]]

---------------------------------------------------------------------------
(* CoffImage._load: header decoding and validation *)

\* Mutant: the target id is checked before the magic value
HeaderChecks_TargetFirst(dlen, magic, tid, sectab_end, symtab_addr, strtab_addr, strtab_len, strtab_end) ==
    IF tid = 0
    THEN Raise("target", 0, << >>)
    ELSE IF magic # MAGIC
    THEN Raise("magic", magic, << >>)
    ELSE IF sectab_end > dlen
    THEN Raise("section_table", 0, << >>)
    ELSE IF sectab_end > symtab_addr \/ strtab_addr > dlen
    THEN Raise("symbol_table", 0, << >>)
    ELSE IF strtab_len <= 0 \/ strtab_end > dlen
    THEN Raise("string_table", 0, << >>)
    ELSE NoRaise

\* Mutant: the symbol table check forgets the string table address
HeaderChecks_NoStrtabAddr(dlen, magic, tid, sectab_end, symtab_addr, strtab_addr, strtab_len, strtab_end) ==
    IF magic # MAGIC
    THEN Raise("magic", magic, << >>)
    ELSE IF tid = 0
    THEN Raise("target", 0, << >>)
    ELSE IF sectab_end > dlen
    THEN Raise("section_table", 0, << >>)
    ELSE IF sectab_end > symtab_addr
    THEN Raise("symbol_table", 0, << >>)
    ELSE IF strtab_len <= 0 \/ strtab_end > dlen
    THEN Raise("string_table", 0, << >>)
    ELSE NoRaise

\* the validation chain of _load, after the header is unpacked
HeaderChecks(dlen, magic, tid, sectab_end, symtab_addr, strtab_addr, strtab_len, strtab_end) ==
    IF magic # MAGIC
    THEN Raise("magic", magic, << >>)
    ELSE IF tid = 0
    THEN Raise("target", 0, << >>)
    ELSE IF sectab_end > dlen
    THEN Raise("section_table", 0, << >>)
    ELSE IF sectab_end > symtab_addr \/ strtab_addr > dlen
    THEN Raise("symbol_table", 0, << >>)
    ELSE IF strtab_len <= 0 \/ strtab_end > dlen
    THEN Raise("string_table", 0, << >>)
    ELSE NoRaise

_load(buf) ==
    IF Len(buf) < HDR_ENT_SIZE
    THEN [raised |-> Raise("not_valid_image", 0, << >>)]
    ELSE
    LET dlen == Len(buf)
        nsects == HdrField(buf, 1)
        symtab_addr == HdrField(buf, 3)
        nsyms == HdrField(buf, 4)
        tid == HdrField(buf, 7)
        magic == HdrField(buf, 8)
        entry == HdrField(buf, 13)
        sectab_end == HDR_ENT_SIZE + nsects * ENT_SIZE
        strtab_addr == symtab_addr + nsyms * SYM_ENT_SIZE
        strtab_len == dlen - strtab_addr
        strtab_end == strtab_addr + strtab_len
        chk == HeaderChecks(dlen, magic, tid, sectab_end, symtab_addr,
                            strtab_addr, strtab_len, strtab_end)
    IN  IF chk # NoRaise
        THEN [raised |-> chk]
        ELSE [raised |-> NoRaise,
              tid |-> tid, nsects |-> nsects, entry |-> entry,
              strtab_addr |-> strtab_addr,
              blen |-> IF tid \in DOMAIN blens THEN blens[tid] ELSE 1]

---------------------------------------------------------------------------
(* CoffImage._load_sect_tab: decoded counts the entries unpacked *)

\* One pass of the loop body: the entry at index idx unpacked, its name
\* resolved and its CoffSection constructed
LoadEntry(buf, img, idx) ==
    LET addr == HDR_ENT_SIZE + idx * ENT_SIZE
        nm == _get_ent_name(buf, img.strtab_addr, addr,
                            EntField(buf, addr, 0) = 0, EntField(buf, addr, 1))
    IN  IF nm.raised # NoRaise
        THEN [raised |-> nm.raised, sect |-> NoSection]
        ELSE CoffSection(nm.name, idx, buf, addr, img.blen)

\* (CHOOSE r \in {F(x) : x \in {e}} : TRUE is F(e) with e evaluated once)
RECURSIVE LoadSects(_, _, _, _)
LoadSects(buf, img, idx, sects) ==
    IF idx >= img.nsects
    THEN [raised |-> NoRaise, sects |-> sects, decoded |-> idx]
    ELSE CHOOSE r \in
        { IF e.raised # NoRaise
          THEN [raised |-> e.raised, sects |-> << >>, decoded |-> idx + 1]
          ELSE LoadSects(buf, img, idx + 1, Append(sects, e.sect))
          : e \in {LoadEntry(buf, img, idx)} } : TRUE

TableOf(r) ==
    IF r.raised # NoRaise
    THEN [raised |-> r.raised, table |-> NoTable, decoded |-> r.decoded]
    ELSE LET t == CoffSectionTable(r.sects)
         IN  [raised |-> t.raised, table |-> t.table, decoded |-> r.decoded]

_load_sect_tab(buf, img) ==
    CHOOSE t \in {TableOf(r) : r \in {LoadSects(buf, img, 0, << >>)}} : TRUE

---------------------------------------------------------------------------
(* CoffImage.sectab: the lazily built, stored table *)

\* Mutant: the stored table is not consulted
sectab_get_Reload(buf, img, stored) ==
    LET r == _load_sect_tab(buf, img)
    IN  [raised |-> r.raised, stored |-> r.table, decoded |-> r.decoded]

sectab_get(buf, img, stored) ==
    IF ~stored.loaded
    THEN LET r == _load_sect_tab(buf, img)
         IN  [raised |-> r.raised, stored |-> r.table, decoded |-> r.decoded]
    ELSE [raised |-> NoRaise, stored |-> stored, decoded |-> 0]

---------------------------------------------------------------------------
(* CoffSection.data: self._data[daddr:daddr+dlen] of the bytearray, which   *)
(* Python evaluates to a new bytearray holding the bytes of the slice      *)

\* Mutant: the slice starts at the beginning of the buffer
section_data_Undisplaced(buf, sect) == Slice(buf, 0, sect.dlen)

section_data(buf, sect) == Slice(buf, sect.daddr, sect.daddr + sect.dlen)

---------------------------------------------------------------------------
(* CoffImage.copy_sects *)

\* d[lo:hi] = src for a bytearray d
SetSlice(d, lo, hi, src) ==
    LET l == Min(lo, Len(d))
        h == Max(l, Min(hi, Len(d)))
    IN  Slice(d, 0, l) \o src \o Slice(d, h, Len(d))

\* Mutant: the virtual address is tried first
CopySect_VirtFirst(buf, sect, addr, d) ==
    LET paddr == sect.paddr
        vaddr == sect.vaddr
        dlen == sect.dlen
        end_addr == addr + Len(d)
    IN  IF vaddr >= addr /\ vaddr + dlen <= end_addr
        THEN SetSlice(d, vaddr - addr, vaddr - addr + dlen,
                      section_data(buf, sect))
        ELSE IF paddr >= addr /\ paddr + dlen <= end_addr
        THEN SetSlice(d, paddr - addr, paddr - addr + dlen,
                      section_data(buf, sect))
        ELSE d

\* One pass of the loop body: dst after the section sect is handled
CopySect(buf, sect, addr, d) ==
    LET paddr == sect.paddr
        vaddr == sect.vaddr
        dlen == sect.dlen
        end_addr == addr + Len(d)
    IN  IF paddr >= addr /\ paddr + dlen <= end_addr
        THEN SetSlice(d, paddr - addr, paddr - addr + dlen,
                      section_data(buf, sect))
        ELSE IF vaddr >= addr /\ vaddr + dlen <= end_addr
        THEN SetSlice(d, vaddr - addr, vaddr - addr + dlen,
                      section_data(buf, sect))
        ELSE d

RECURSIVE CopyLoop(_, _, _, _, _)
CopyLoop(buf, sects, i, addr, d) ==
    IF i > Len(sects) THEN d
    ELSE CHOOSE r \in
        { CopyLoop(buf, sects, i + 1, addr, nd)
          : nd \in {CopySect(buf, sects[i], addr, d)} } : TRUE

CopyInto(buf, t, addr, d) ==
    IF t.raised # NoRaise
    THEN [raised |-> t.raised, stored |-> t.stored,
          decoded |-> t.decoded, dst |-> d]
    ELSE [raised |-> NoRaise, stored |-> t.stored, decoded |-> t.decoded,
          dst |-> CopyLoop(buf, t.stored.sects, 1, addr, d)]

copy_sects(buf, img, stored, addr, d) ==
    CHOOSE r \in
        {CopyInto(buf, t, addr, d) : t \in {sectab_get(buf, img, stored)}}
        : TRUE

---------------------------------------------------------------------------
(* dataops.align *)

align(value, alignment) ==
    IF alignment = 0 THEN value
    ELSE IF value % alignment = 0 THEN alignment
    ELSE value + alignment - (value % alignment)

---------------------------------------------------------------------------
(* Input buffers: images laid out as the unpack formats of coff.py read    *)
(* them (header, section entries, section payload, symbols, string table)  *)

LE16(v) == <<v % 256, v \div 256>>

LE32(v) == <<v % 256, (v \div 256) % 256, (v \div 65536) % 256, v \div 16777216>>

Zeros(n) == [i \in 1..n |-> 0]

\* the 50 byte header "<2H3I5H6I"
Header(nsects, symtab_addr, nsyms, tid, magic, entry) ==
    LE16(0) \o LE16(nsects) \o LE32(0) \o LE32(symtab_addr) \o LE32(nsyms)
    \o LE16(0) \o LE16(0) \o LE16(tid) \o LE16(magic) \o LE16(0)
    \o LE32(0) \o LE32(0) \o LE32(0) \o LE32(entry) \o LE32(0) \o LE32(0)

\* a 48 byte section entry "<12I"; name8 is the 8 byte name field
Entry(name8, paddr, vaddr, rawlen, daddr, flags) ==
    name8 \o LE32(paddr) \o LE32(vaddr) \o LE32(rawlen) \o LE32(daddr)
    \o Zeros(16) \o LE32(flags) \o LE32(0)

Inline(b) == b \o Zeros(NAME_ENT_SIZE - Len(b))

InTable(offs) == LE32(0) \o LE32(offs)

Payload == <<17, 18, 19, 20, 21, 22, 23, 24>>

StrTab == <<97, 0>>

\* the section entries the generated images are made of
Templates ==
    { [name8 |-> Inline(<<97>>), paddr |-> 16, vaddr |-> 16, rawlen |-> 2,
       dmode |-> "pay0", flags |-> TEXT],
      [name8 |-> Inline(<<98>>), paddr |-> 18, vaddr |-> 16, rawlen |-> 2,
       dmode |-> "pay4", flags |-> DATA],
      [name8 |-> InTable(0), paddr |-> 100, vaddr |-> 20, rawlen |-> 2,
       dmode |-> "pay0", flags |-> BSS],
      [name8 |-> Inline(<<99>>), paddr |-> 17, vaddr |-> 17, rawlen |-> 2,
       dmode |-> "pay4", flags |-> 16],
      [name8 |-> InTable(2), paddr |-> 16, vaddr |-> 16, rawlen |-> 2,
       dmode |-> "tail", flags |-> TEXT],
      [name8 |-> Inline(<<100>>), paddr |-> 100, vaddr |-> 100, rawlen |-> 2,
       dmode |-> "tail", flags |-> TEXT],
      [name8 |-> Inline(<<255>>), paddr |-> 16, vaddr |-> 16, rawlen |-> 2,
       dmode |-> "pay0", flags |-> TEXT],
      [name8 |-> Inline(<<101>>), paddr |-> 100, vaddr |-> 100, rawlen |-> 2,
       dmode |-> "tail", flags |-> 0] }

PayloadAddr(n) == HDR_ENT_SIZE + n * ENT_SIZE

ImageLen(n) == PayloadAddr(n) + Len(Payload) + SYM_ENT_SIZE + Len(StrTab)

EntryOf(t, n) ==
    Entry(t.name8, t.paddr, t.vaddr, t.rawlen,
          CASE t.dmode = "pay0" -> PayloadAddr(n)
            [] t.dmode = "pay4" -> PayloadAddr(n) + 4
            [] OTHER -> ImageLen(n) - 3,
          t.flags)

RECURSIVE Entries(_, _)
Entries(ts, i) ==
    IF i > Len(ts) THEN << >>
    ELSE EntryOf(ts[i], Len(ts)) \o Entries(ts, i + 1)

\* a well-formed image with the section entries ts and one symbol
MkImage(tid, ts) ==
    Header(Len(ts), PayloadAddr(Len(ts)) + Len(Payload), 1, tid, MAGIC, 4096)
    \o Entries(ts, 1) \o Payload \o Zeros(SYM_ENT_SIZE) \o StrTab

TemplateSeqs == UNION {[1..n -> Templates] : n \in 0..MaxSects}

SectionImages == {MkImage(tid, ts) : tid \in {1, 152, 157}, ts \in TemplateSeqs}

\* headers over a 120 byte buffer, each field right, just wrong and wrong
HeaderImages ==
    {Header(ns, sa, nsy, tid, mg, 0) \o Zeros(70) :
        ns \in {0, 1, 2}, sa \in {40, 98, 110, 120, 130}, nsy \in {0, 1, 2},
        tid \in {0, 1}, mg \in {MAGIC, MAGIC + 1}}

ShortImages ==
    {SubSeq(MkImage(157, << >>), 1, n) : n \in {0, 1, HDR_ENT_SIZE - 1}}

Inputs == SectionImages \cup HeaderImages \cup ShortImages

---------------------------------------------------------------------------
(* State machine *)

NoImage == [status |-> "new", tid |-> 0, nsects |-> 0, entry |-> 0,
            strtab_addr |-> 0, blen |-> 0]

Call(op, raised, addr, pre, arg) ==
    [op |-> op, raised |-> raised, addr |-> addr, pre |-> pre, arg |-> arg]

Init ==
    /\ data \in Inputs
    /\ image = NoImage
    /\ sectab = NoTable
    /\ ndecoded = 0
    /\ dst = << >>
    /\ view = NoView
    /\ call = Call("none", NoRaise, 0, << >>, 0)
    /\ nmut = 0
    /\ aligned = NoAlign

\* CoffImage(data)
Construct ==
    /\ image.status = "new"
    /\ \E r \in {_load(data)} :
           /\ image' = IF r.raised # NoRaise
                       THEN [NoImage EXCEPT !.status = "failed"]
                       ELSE [status |-> "ok", tid |-> r.tid,
                             nsects |-> r.nsects, entry |-> r.entry,
                             strtab_addr |-> r.strtab_addr, blen |-> r.blen]
           /\ call' = Call("construct", r.raised, 0, << >>, 0)
    /\ sectab' = NoTable
    /\ UNCHANGED <<data, ndecoded, dst, view, nmut, aligned>>

\* image.sectab
Sectab ==
    /\ image.status = "ok"
    /\ \E r \in {sectab_get(data, image, sectab)} :
           /\ ndecoded + r.decoded <= MaxDecodes
           /\ sectab' = r.stored
           /\ ndecoded' = ndecoded + r.decoded
           /\ call' = Call("sectab", r.raised, 0, << >>, r.decoded)
    /\ UNCHANGED <<data, image, dst, view, nmut, aligned>>

\* image.copy_sects(addr, bytearray([fill]) * DstLen)
CopySects(addr, fill) ==
    /\ image.status = "ok"
    /\ \E pre \in {[i \in 1..DstLen |-> fill]} :
       \E r \in {copy_sects(data, image, sectab, addr, pre)} :
           /\ ndecoded + r.decoded <= MaxDecodes
           /\ sectab' = r.stored
           /\ ndecoded' = ndecoded + r.decoded
           /\ dst' = r.dst
           /\ call' = Call("copy_sects", r.raised, addr, pre, r.decoded)
    /\ UNCHANGED <<data, image, view, nmut, aligned>>

\* v = image.sectab[i].data
GetData(i) ==
    /\ image.status = "ok"
    /\ sectab.loaded
    /\ i \in 1..Len(sectab.sects)
    /\ view' = [has |-> TRUE, sect |-> i, bytes |-> section_data(data, sectab.sects[i])]
    /\ call' = Call("data", NoRaise, 0, << >>, i)
    /\ UNCHANGED <<data, image, sectab, ndecoded, dst, nmut, aligned>>

\* v[k] = b, on the object GetData returned
WriteView(k, b) ==
    /\ view.has
    /\ k < Len(view.bytes)
    /\ view' = [view EXCEPT !.bytes[k + 1] = b]
    /\ call' = Call("write_view", NoRaise, k, << >>, b)
    /\ UNCHANGED <<data, image, sectab, ndecoded, dst, nmut, aligned>>

\* data[pos] = b, by the owner of the buffer
WriteData(pos, b) ==
    /\ image.status = "ok"
    /\ nmut < MaxMut
    /\ pos < Len(data)
    /\ data' = [data EXCEPT ![pos + 1] = b]
    /\ nmut' = nmut + 1
    /\ call' = Call("write_data", NoRaise, pos, << >>, b)
    /\ UNCHANGED <<image, sectab, ndecoded, dst, view, aligned>>

\* the buffer positions the owner writes: the low byte of the first
\* entry's physical address, and the first byte of the section payload
WritePositions == {HDR_ENT_SIZE + 8, PayloadAddr(image.nsects)}

Next ==
    \/ Construct
    \/ Sectab
    \/ \E addr \in {16, 18} : CopySects(addr, 255)
    \/ \E i \in 1..MaxSects : GetData(i)
    \/ WriteView(0, 7)
    \/ \E pos \in WritePositions : WriteData(pos, 7)

Spec == Init /\ [][Next]_vars

---------------------------------------------------------------------------
(* dataops.align called over a range of arguments *)

InitAlign ==
    /\ data = << >>
    /\ image = NoImage
    /\ sectab = NoTable
    /\ ndecoded = 0
    /\ dst = << >>
    /\ view = NoView
    /\ call = Call("none", NoRaise, 0, << >>, 0)
    /\ nmut = 0
    /\ aligned = NoAlign

Align(value, alignment) ==
    /\ aligned' = [done |-> TRUE, value |-> value, align |-> alignment,
                   result |-> align(value, alignment)]
    /\ UNCHANGED <<data, image, sectab, ndecoded, dst, view, call, nmut>>

NextAlign == \E value \in 0..MaxAlignValue, alignment \in 0..MaxAlign :
                Align(value, alignment)

SpecAlign == InitAlign /\ [][NextAlign]_vars

---------------------------------------------------------------------------
(* Properties of CoffImage construction *)

SetMin(S) == CHOOSE x \in S : \A y \in S : x <= y

SetMax(S) == CHOOSE x \in S : \A y \in S : x >= y

HeaderRead == Len(data) >= HDR_ENT_SIZE

SectabEnd == HDR_ENT_SIZE + HdrField(data, 1) * ENT_SIZE

SymtabAddr == HdrField(data, 3)

StrtabAddr == HdrField(data, 3) + HdrField(data, 4) * SYM_ENT_SIZE

\* The checks of the specification that fail on the buffer, by number
FailingChecks ==
    {k \in 1..6 :
        \/ k = 1 /\ ~HeaderRead
        \/ k = 2 /\ HeaderRead /\ HdrField(data, 8) # MAGIC
        \/ k = 3 /\ HeaderRead /\ HdrField(data, 7) = 0
        \/ k = 4 /\ HeaderRead /\ SectabEnd > Len(data)
        \/ k = 5 /\ HeaderRead
                 /\ (SectabEnd > SymtabAddr \/ StrtabAddr > Len(data))
        \/ k = 6 /\ HeaderRead /\ Len(data) - StrtabAddr <= 0}

CheckError(k) ==
    CASE k = 1 -> "not_valid_image"
      [] k = 2 -> "magic"
      [] k = 3 -> "target"
      [] k = 4 -> "section_table"
      [] k = 5 -> "symbol_table"
      [] k = 6 -> "string_table"

\* C1: construction raises the error of the first check, in the fixed order
\* (1) short buffer, (2) magic, (3) target id, (4) section table, (5) symbol
\* table, (6) string table, that fails on the buffer, also when later checks
\* fail too; the image is constructed if and only if no check fails.
C1_FirstFailingCheck ==
    call.op = "construct" =>
        /\ (image.status = "ok") = (FailingChecks = {})
        /\ (FailingChecks = {}) = (call.raised = NoRaise)
        /\ FailingChecks # {} =>
            /\ image.status = "failed"
            /\ call.raised.err = CheckError(SetMin(FailingChecks))

\* A buffer with a wrong magic value, target id 0 and a bad section table
\* was rejected for its magic value
C1_Witness ==
    /\ call.op = "construct"
    /\ {2, 3, 4} \subseteq FailingChecks
    /\ call.raised = Raise("magic", MAGIC + 1, << >>)

PassesFirstFour ==
    /\ HeaderRead
    /\ HdrField(data, 8) = MAGIC
    /\ HdrField(data, 7) # 0
    /\ SectabEnd <= Len(data)

\* C2 as stated: a buffer passing the first four checks is rejected with the
\* symbol table error whenever the section table end lies at or before the
\* symbol table address, or the string table address exceeds the length.
C2_AtOrBeforeRejected ==
    (/\ call.op = "construct"
     /\ PassesFirstFour
     /\ (SectabEnd <= SymtabAddr \/ StrtabAddr > Len(data)))
    => call.raised.err = "symbol_table"

\* C2, amended: a buffer passing the first four checks is rejected with the
\* symbol table error whenever the section table end lies beyond the symbol
\* table address, or the string table address exceeds the buffer length.
C2_BeyondRejected ==
    (/\ call.op = "construct"
     /\ PassesFirstFour
     /\ (SectabEnd > SymtabAddr \/ StrtabAddr > Len(data)))
    => /\ call.raised.err = "symbol_table"
       /\ image.status = "failed"

\* A symbol table that starts after the section table but whose end (the
\* string table address) lies beyond the buffer was rejected
C2_Witness ==
    /\ call.op = "construct"
    /\ PassesFirstFour
    /\ SectabEnd <= SymtabAddr
    /\ StrtabAddr > Len(data)
    /\ call.raised.err = "symbol_table"

---------------------------------------------------------------------------
(* Properties of the stored section table *)

\* C8: no entry is decoded by construction; once the table is stored every
\* later step (table accesses, copy_sects, writes to the buffer) leaves the
\* stored table and the number of decoded entries as they are; the access
\* that stores the table decodes each of the nsects entries once.
C8_TableBuiltOnce ==
    [][ /\ image.status = "new" => (ndecoded' = 0 /\ ~sectab'.loaded)
        /\ sectab.loaded => (sectab' = sectab /\ ndecoded' = ndecoded)
        /\ (~sectab.loaded /\ sectab'.loaded) =>
                /\ call'.arg = image.nsects
                /\ ndecoded' = ndecoded + image.nsects ]_vars

\* The table was returned by an access that decoded nothing, although the
\* buffer now holds another physical address for the first entry
C8_Witness ==
    /\ call.op \in {"sectab", "copy_sects"}
    /\ call.arg = 0
    /\ call.raised = NoRaise
    /\ sectab.loaded
    /\ Len(sectab.sects) > 0
    /\ nmut > 0
    /\ EntField(data, HDR_ENT_SIZE, 2) # sectab.sects[1].paddr
    /\ ndecoded = image.nsects

---------------------------------------------------------------------------
(* Properties of dataops.align *)

\* C9: align(value, 0) is value, and for align > 0 the result is the
\* smallest multiple of align that is at least value.
C9_SmallestMultiple ==
    aligned.done =>
        IF aligned.align = 0
        THEN aligned.result = aligned.value
        ELSE /\ aligned.result % aligned.align = 0
             /\ aligned.result >= aligned.value
             /\ aligned.result - aligned.align < aligned.value

---------------------------------------------------------------------------
(* Properties of section table construction.  The entries are read from    *)
(* the buffer as it is when the table access decodes them.                 *)

\* The last operation was a table access that decoded the entries
DecodingAccess ==
    /\ call.op \in {"sectab", "copy_sects"}
    /\ (call.arg > 0 \/ image.nsects = 0)

EntAddr(i) == HDR_ENT_SIZE + i * ENT_SIZE

\* The exposed length of entry i: scaled when the entry is allocated
EntDlen(i) ==
    IF (EntField(data, EntAddr(i), 10) \div 32) % 8 # 0
    THEN EntField(data, EntAddr(i), 4) * image.blen
    ELSE EntField(data, EntAddr(i), 4)

EntViolates(i) == EntField(data, EntAddr(i), 5) + EntDlen(i) > Len(data)

EntName(i) ==
    _get_ent_name(data, image.strtab_addr, EntAddr(i),
                  EntField(data, EntAddr(i), 0) = 0,
                  EntField(data, EntAddr(i), 1))

\* Entry i has no name: the resolver returned None or decoding raised
EntNameBad(i) == EntName(i).raised # NoRaise \/ ~EntName(i).name.has

Violating == {i \in 0..(image.nsects - 1) : EntViolates(i)}

SectionsInBounds ==
    \A k \in 1..Len(sectab.sects) :
        /\ sectab.sects[k].daddr + sectab.sects[k].dlen <= Len(data)
        /\ sectab.sects[k].dlen = EntDlen(k - 1)

\* C3 as stated: every section of a returned table has daddr + dlen within
\* the buffer, dlen being the scaled length for allocated sections; if any
\* entry violates the bound the access raises the 'does not contain valid
\* data' error and no table is stored.
C3_ViolationRaisesDataError ==
    DecodingAccess =>
        /\ sectab.loaded => SectionsInBounds
        /\ Violating # {} =>
            /\ call.raised.err = "section_data"
            /\ ~sectab.loaded

\* C3, amended: as above, but when an entry violates the bound the access
\* raises and stores no table, and the error is the 'does not contain valid
\* data' error of the first violating entry unless that entry or an earlier
\* one has no valid name, in which case it is a name or decoding error.
C3_ViolationRaises ==
    DecodingAccess =>
        /\ sectab.loaded => SectionsInBounds
        /\ Violating # {} =>
            /\ call.raised # NoRaise
            /\ ~sectab.loaded
            /\ IF \A i \in 0..SetMin(Violating) : ~EntNameBad(i)
               THEN call.raised =
                        Raise("section_data", SetMin(Violating), << >>)
               ELSE call.raised.err \in {"section_name", "unicode_decode"}

\* The second entry was rejected although its raw length fits the buffer:
\* it is allocated and its scaled length does not fit
C3_Witness ==
    /\ DecodingAccess
    /\ call.raised = Raise("section_data", 1, << >>)
    /\ image.blen = 2
    /\ EntField(data, EntAddr(1), 5) + EntField(data, EntAddr(1), 4)
            <= Len(data)
    /\ ~sectab.loaded

\* Entries i < j whose names both resolve, to the same text
SameName(i, j) ==
    /\ i < j
    /\ ~EntNameBad(i)
    /\ ~EntNameBad(j)
    /\ EntName(i).name = EntName(j).name

EntryPairs == (0..(image.nsects - 1)) \X (0..(image.nsects - 1))

\* The stored table holds the nsects entries in file order, each decoded
\* from its 48 bytes, under names that differ
TableMatchesEntries ==
    /\ Len(sectab.sects) = image.nsects
    /\ \A k \in 1..Len(sectab.sects) :
        /\ sectab.sects[k].idx = k - 1
        /\ sectab.sects[k].name = EntName(k - 1).name.text
        /\ sectab.sects[k].paddr = EntField(data, EntAddr(k - 1), 2)
        /\ sectab.sects[k].vaddr = EntField(data, EntAddr(k - 1), 3)
        /\ sectab.sects[k].daddr = EntField(data, EntAddr(k - 1), 5)
        /\ sectab.sects[k].flags = EntField(data, EntAddr(k - 1), 10)
        /\ sectab.tab[sectab.sects[k].name] = k
    /\ \A k, m \in 1..Len(sectab.sects) :
        k # m => sectab.sects[k].name # sectab.sects[m].name

\* C4 as stated: a built table yields exactly nsects sections, the i-th with
\* idx i and decoded from the entry at 50 + 48 * i, no two with the same
\* name; if two entries resolve to the same name, the access raises the
\* duplicate-name error naming it.
C4_SameNameRaisesDuplicate ==
    DecodingAccess =>
        /\ sectab.loaded => TableMatchesEntries
        /\ \A p \in EntryPairs :
            SameName(p[1], p[2]) =>
                call.raised =
                    Raise("duplicate_name", 0, EntName(p[1]).name.text)

\* the first entry, in file order, whose name an earlier entry has
FirstRepeat ==
    SetMin({j \in 0..(image.nsects - 1) :
                \E i \in 0..(image.nsects - 1) : SameName(i, j)})

\* C4, amended: as above, but the duplicate-name error, naming the first
\* name to repeat in file order, is raised when two entries resolve to the
\* same name and every entry decodes to a section (has a valid name and its
\* data within the buffer); no table is stored then.
C4_SameNameOfSectionsRaisesDuplicate ==
    DecodingAccess =>
        /\ sectab.loaded => TableMatchesEntries
        /\ (/\ \E p \in EntryPairs : SameName(p[1], p[2])
            /\ \A i \in 0..(image.nsects - 1) :
                    ~EntNameBad(i) /\ ~EntViolates(i))
           => /\ call.raised =
                    Raise("duplicate_name", 0, EntName(FirstRepeat).name.text)
              /\ ~sectab.loaded

\* Two entries, one named inline and one through the string table, resolved
\* to the same name and the access raised the duplicate-name error
C4_Witness ==
    /\ DecodingAccess
    /\ call.arg >= 2
    /\ call.raised = Raise("duplicate_name", 0, <<97>>)
    /\ \E p \in EntryPairs :
        /\ SameName(p[1], p[2])
        /\ EntField(data, EntAddr(p[1]), 0) # 0
        /\ EntField(data, EntAddr(p[2]), 0) = 0

---------------------------------------------------------------------------
(* Properties of copy_sects.  Positions of dst are counted from 0.         *)

CopyDone == call.op = "copy_sects" /\ call.raised = NoRaise

PhysFits(s) ==
    s.paddr >= call.addr /\ s.paddr + s.dlen <= call.addr + Len(call.pre)

VirtFits(s) ==
    s.vaddr >= call.addr /\ s.vaddr + s.dlen <= call.addr + Len(call.pre)

\* The offset in dst the first-match policy gives the section, -1 for none
PlacedAt(s) ==
    IF PhysFits(s) THEN s.paddr - call.addr
    ELSE IF VirtFits(s) THEN s.vaddr - call.addr
    ELSE -1

Covers(s, j) ==
    PlacedAt(s) # -1 /\ j >= PlacedAt(s) /\ j < PlacedAt(s) + s.dlen

Covering(j) == {k \in 1..Len(sectab.sects) : Covers(sectab.sects[k], j)}

Allocated(s) == (s.flags \div 32) % 8 # 0

\* C10: each section is placed at its physical offset if its physical range
\* fits the window, else at its virtual offset if its virtual range fits,
\* else nowhere; sections are handled in table order, so each byte of dst
\* holds the byte of the last section placed over it, or its value before
\* the call; no error is raised and the length of dst is unchanged.
C10_FirstMatchPlacement ==
    (call.op = "copy_sects" /\ sectab.loaded) =>
        /\ call.raised = NoRaise
        /\ Len(dst) = Len(call.pre)
        /\ \A j \in 0..(Len(call.pre) - 1) :
            dst[j + 1] =
                IF Covering(j) = {} THEN call.pre[j + 1]
                ELSE LET s == sectab.sects[SetMax(Covering(j))]
                     IN  data[s.daddr + (j - PlacedAt(s)) + 1]

\* One section was placed by its physical address although its virtual
\* range, at another offset, fits too, and another one by its virtual
\* address because its physical range does not fit
C10_Witness ==
    /\ CopyDone
    /\ \E k \in 1..Len(sectab.sects) :
        LET s == sectab.sects[k]
        IN  /\ PhysFits(s) /\ VirtFits(s) /\ s.paddr # s.vaddr /\ s.dlen > 0
            /\ dst[s.paddr - call.addr + 1] = data[s.daddr + 1]
            /\ dst[s.paddr - call.addr + 1] # call.pre[s.paddr - call.addr + 1]
    /\ \E k \in 1..Len(sectab.sects) :
        LET s == sectab.sects[k]
        IN  /\ ~PhysFits(s) /\ VirtFits(s) /\ s.dlen > 0
            /\ dst[s.vaddr - call.addr + 1] = data[s.daddr + 1]

\* C5: a section with none of TEXT, DATA, BSS set writes no byte of dst: a
\* byte no allocated section is placed over keeps its value.
C5_OnlyAllocatedCopied ==
    CopyDone =>
        \A j \in 0..(Len(call.pre) - 1) :
            (\A k \in Covering(j) : ~Allocated(sectab.sects[k]))
                => dst[j + 1] = call.pre[j + 1]

AllAllocatedInWindow ==
    \A k \in 1..Len(sectab.sects) :
        Allocated(sectab.sects[k]) => PhysFits(sectab.sects[k])

PhysRangeCopied(s) ==
    Slice(dst, s.paddr - call.addr, s.paddr - call.addr + s.dlen)
        = Slice(data, s.daddr, s.daddr + s.dlen)

UncoveredKept ==
    \A j \in 0..(Len(call.pre) - 1) :
        Covering(j) = {} => (j < Len(dst) /\ dst[j + 1] = call.pre[j + 1])

AllAllocated ==
    \A k \in 1..Len(sectab.sects) : Allocated(sectab.sects[k])

\* C6 as stated, for the tables that hold allocated sections only: over a
\* window holding the physical range of every allocated section, each
\* allocated section's bytes are found in dst at paddr - addr, and the
\* bytes outside every section's range are kept.
C6_RoundTrip ==
    (CopyDone /\ AllAllocatedInWindow /\ AllAllocated) =>
        /\ \A k \in 1..Len(sectab.sects) :
            Allocated(sectab.sects[k]) => PhysRangeCopied(sectab.sects[k])
        /\ UncoveredKept

\* A section later in table order is placed over a byte of section k
OverlaidLater(k) ==
    \E m \in (k + 1)..Len(sectab.sects) :
        \E j \in 0..(Len(call.pre) - 1) :
            Covers(sectab.sects[k], j) /\ Covers(sectab.sects[m], j)

\* C6, amended: the same, for each allocated section over which no section
\* later in table order (allocated or not) is placed.
C6_RoundTripUnlessOverlaid ==
    (CopyDone /\ AllAllocatedInWindow) =>
        /\ \A k \in 1..Len(sectab.sects) :
            (Allocated(sectab.sects[k]) /\ ~OverlaidLater(k))
                => PhysRangeCopied(sectab.sects[k])
        /\ UncoveredKept

\* Two allocated sections with scaled lengths were copied into a window
\* holding both: the second lies over part of the first and is found whole
\* in dst, and a byte outside both kept the fill value
C6_Witness ==
    /\ CopyDone
    /\ AllAllocatedInWindow
    /\ image.blen = 2
    /\ Len(sectab.sects) >= 2
    /\ \A k \in 1..Len(sectab.sects) :
        Allocated(sectab.sects[k]) /\ sectab.sects[k].dlen = 4
    /\ OverlaidLater(1)
    /\ ~OverlaidLater(2)
    /\ PhysRangeCopied(sectab.sects[2])
    /\ \E j \in 0..(Len(call.pre) - 1) : Covering(j) = {} /\ dst[j + 1] = 255

---------------------------------------------------------------------------
(* Properties of CoffSection.data *)

\* C7: the object returned by data shares the image buffer: after any write
\* through it or to the buffer, it holds the bytes the buffer holds at
\* [daddr, daddr + dlen).
C7_DataIsView ==
    view.has =>
        view.bytes =
            Slice(data, sectab.sects[view.sect].daddr,
                  sectab.sects[view.sect].daddr + sectab.sects[view.sect].dlen)

===========================================================================
